---- MODULE Spec2Model ----
(***************************************************************************)
(* License / credit ledger of merged_app.py.                               *)
(*                                                                         *)
(* The store is the SQLite database license_system.db: four tables, one    *)
(* connection per request.  A request is a task that executes the          *)
(* statements of process_order or transcribe one after another; tasks of   *)
(* different requests interleave between statements.  SQLite gives each    *)
(* connection its own transaction: rows written by INSERT / UPDATE are     *)
(* visible to the other connections only after conn.commit(), and at most  *)
(* one connection holds the write lock at a time.                          *)
(*                                                                         *)
(* Any two requests may interleave: the handlers share credit_lock, a      *)
(* threading.Lock, and open their connections with                         *)
(* check_same_thread=False, and simulate_order runs in the worker threads. *)
(* Each request of a run takes one slot of procs and keeps it, so that the *)
(* finished requests and their responses stay visible in the state.        *)
(*                                                                         *)
(* Datetimes are instants counted in ticks of 1/SubSec second.  A datetime *)
(* stored in a DATETIME column is text; the text is modelled as the record *)
(* [s |-> whole seconds, f |-> printed fraction], f = 0 meaning that no    *)
(* fractional part was printed.                                            *)
(***************************************************************************)
EXTENDS Integers, Sequences, FiniteSets, TLC

\* ------------------------------------------------------------------ bounds
NProcs == 3        \* request slots (each request of a run uses one)
SubSec == 2        \* clock ticks per second (sub-second resolution)
MaxSmall == 2      \* clock ticks observed after the start of a 30-day period
MaxJumps == 1      \* 30-day periods that pass
NEmails == 1       \* distinct e-mail addresses submitted
NCodes == 2        \* distinct order codes submitted
NKeys == 1         \* distinct license keys presented
NUsers == 2        \* e-mail addresses and license keys of the two-user runs

\* --------------------------------------------------------------- constants
AmountDen == 8             \* amounts are the floats n/8 (exact in binary)
CreditPerUnit == 60        \* amount * 60
ExtensionDays == 30        \* timedelta(days=30)
SecondsPerDay == 86400
file_duration == 60

Procs == 1..NProcs
Emails == 1..NEmails
OrderCodes == 1..NCodes
Keys == 1..NKeys
\* amounts submitted, in units of 1/AmountDen: 1.0 and 1.125
Amounts == {8, 9}

Period == ExtensionDays * SecondsPerDay * SubSec   \* 30 days, in ticks
Cost == file_duration * SubSec                     \* 60 seconds, in ticks
\* the instants at which the clock is read
Instants == {j * Period + i : j \in 0..MaxJumps, i \in 0..MaxSmall}

\* ----------------------------------------------------------- conversions
\* round(amount * 60) in place of int(amount * 60)
ToCreditRounded(a) == (a * CreditPerUnit + AmountDen \div 2) \div AmountDen

\* int(amount * 60): truncation towards zero
ToCredit(a) ==
  IF a >= 0 THEN (a * CreditPerUnit) \div AmountDen
            ELSE 0 - (((0 - a) * CreditPerUnit) \div AmountDen)

\* sqlite3's default adapter for datetime: isoformat(" "), which prints the
\* fraction only when microsecond # 0
AdaptDatetime(t) == [s |-> t \div SubSec, f |-> t % SubSec]

\* strftime("%Y-%m-%d %H:%M:%S"): the fraction is dropped
Strftime(t) == [s |-> t \div SubSec, f |-> 0]

\* strptime(text, "%Y-%m-%d %H:%M:%S") raises ValueError ("unconverted data
\* remains") on text that carries a fraction
Parseable(text) == text.f = 0
Strptime(text) == text.s * SubSec

\* the instant a stored text denotes
Instant(text) == text.s * SubSec + text.f

\* remaining_usage <= 0 in place of remaining_usage < file_duration
InsufficientCreditLax(remaining_usage) == remaining_usage <= 0

\* line 171: remaining_usage < file_duration
InsufficientCredit(remaining_usage) == remaining_usage < file_duration

\* x if x is not None else 0
NULL == -1
OrZero(x) == IF x = NULL THEN 0 ELSE x

\* ------------------------------------------------------------------ state
VARIABLES
  db,           \* committed content of license_system.db
  work,         \* content as seen by the connection holding the write lock
  dbWriter,     \* the request whose connection holds the write lock, or 0
  credit_lock,  \* the request holding credit_lock, or 0
  clock,        \* the latest value returned by datetime.now()
  procs         \* the requests: position and local variables of each

vars == <<db, work, dbWriter, credit_lock, clock, procs>>

NoText == [s |-> 0, f |-> 0]
NoRow == [id |-> 0, user_id |-> 0, license_code |-> 0, valid_from |-> NoText,
          valid_until |-> NoText, usage_time |-> 0, usage_count |-> 0,
          remaining_usage |-> 0]

IdleProc == [kind |-> "idle", pc |-> "idle", email |-> 0, order_code |-> 0,
             amount |-> 0, license_key |-> 0, user_id |-> 0,
             had_user |-> FALSE, license_record |-> NoRow, now |-> 0,
             license_id |-> 0, new_remaining |-> 0, result |-> "none"]

\* init_db: CREATE TABLE IF NOT EXISTS on a fresh database file
EmptyDb == [users |-> <<>>, licenses |-> <<>>, usage_logs |-> <<>>, orders |-> <<>>]

Init ==
  /\ db = EmptyDb
  /\ work = EmptyDb
  /\ dbWriter = 0
  /\ credit_lock = 0
  /\ clock = 0
  /\ procs = [p \in Procs |-> IdleProc]

\* ------------------------------------------------------------- the store
Min(S) == CHOOSE x \in S : \A y \in S : x <= y

\* cur.fetchone() of SELECT * FROM users WHERE email = ?
SelectUser(d, email) ==
  LET hit == {i \in 1..Len(d.users) : d.users[i].email = email}
  IN IF hit = {} THEN 0 ELSE d.users[Min(hit)].id

\* cur.fetchone() of SELECT * FROM licenses WHERE user_id = ?
SelectLicenseOfUser(d, uid) ==
  LET hit == {i \in 1..Len(d.licenses) : d.licenses[i].user_id = uid}
  IN IF hit = {} THEN NoRow ELSE d.licenses[Min(hit)]

\* cur.fetchone() of SELECT * FROM licenses WHERE license_code = ?
SelectLicenseByCode(d, code) ==
  LET hit == {i \in 1..Len(d.licenses) : d.licenses[i].license_code = code}
  IN IF hit = {} THEN NoRow ELSE d.licenses[Min(hit)]

\* INSERT INTO users (email) VALUES (?): id INTEGER PRIMARY KEY AUTOINCREMENT
InsertUser(d, email) ==
  [d EXCEPT !.users = Append(@, [id |-> Len(@) + 1, email |-> email])]

\* INSERT INTO licenses (user_id, license_code, valid_from, valid_until,
\* remaining_usage): usage_time and usage_count take DEFAULT 0; the code is a
\* fresh uuid4, modelled by the row id
InsertLicense(d, uid, now, amount) ==
  [d EXCEPT !.licenses = Append(@,
     [id |-> Len(@) + 1, user_id |-> uid, license_code |-> Len(@) + 1,
      valid_from |-> AdaptDatetime(now),
      valid_until |-> AdaptDatetime(now + Period),
      usage_time |-> 0, usage_count |-> 0,
      remaining_usage |-> ToCredit(amount)])]

\* lines 119-123: the new expiry computed from the license_record read earlier
NewValidUntil(rec, now) ==
  LET valid_until == Strptime(rec.valid_until)
      base == IF valid_until < now THEN now ELSE valid_until
  IN Strftime(base + Period)

\* lines 124-126
NewRemaining(rec, amount) == OrZero(rec.remaining_usage) + ToCredit(amount)

\* UPDATE licenses SET valid_until = ?, remaining_usage = ? WHERE id = ?
UpdateLicense(d, rec, now, amount) ==
  [d EXCEPT !.licenses = [i \in 1..Len(@) |->
     IF @[i].id = rec.id
     THEN [@[i] EXCEPT !.valid_until = NewValidUntil(rec, now),
                       !.remaining_usage = NewRemaining(rec, amount)]
     ELSE @[i]]]

\* INSERT OR REPLACE in place of INSERT OR IGNORE: the row that holds the
\* order_code is overwritten
InsertOrReplaceOrder(d, uid, lid, code, amount) ==
  IF \E i \in 1..Len(d.orders) : d.orders[i].order_code = code
  THEN [d EXCEPT !.orders = [i \in 1..Len(@) |->
          IF @[i].order_code = code
          THEN [@[i] EXCEPT !.user_id = uid, !.license_id = lid,
                            !.amount = amount]
          ELSE @[i]]]
  ELSE [d EXCEPT !.orders = Append(@,
         [id |-> Len(@) + 1, user_id |-> uid, license_id |-> lid,
          order_code |-> code, amount |-> amount,
          payment_status |-> "completed"])]

\* INSERT OR IGNORE INTO orders (...): order_code is UNIQUE, a row whose
\* order_code is already present is dropped
InsertOrIgnoreOrder(d, uid, lid, code, amount) ==
  IF \E i \in 1..Len(d.orders) : d.orders[i].order_code = code
  THEN d
  ELSE [d EXCEPT !.orders = Append(@,
         [id |-> Len(@) + 1, user_id |-> uid, license_id |-> lid,
          order_code |-> code, amount |-> amount,
          payment_status |-> "completed"])]

\* the UPDATE of line 175 without its WHERE id = ?
DeductLicenseEveryRow(d, lid, new_remaining) ==
  [d EXCEPT !.licenses = [i \in 1..Len(@) |->
     [@[i] EXCEPT !.remaining_usage = new_remaining,
                  !.usage_count = @ + 1,
                  !.usage_time = @ + file_duration]]]

\* the UPDATE of line 175 without usage_count = usage_count + 1
DeductLicenseNoCount(d, lid, new_remaining) ==
  [d EXCEPT !.licenses = [i \in 1..Len(@) |->
     IF @[i].id = lid
     THEN [@[i] EXCEPT !.remaining_usage = new_remaining,
                       !.usage_time = @ + file_duration]
     ELSE @[i]]]

\* UPDATE licenses SET remaining_usage = ?, usage_count = usage_count + 1,
\* usage_time = usage_time + ? WHERE id = ?
DeductLicense(d, lid, new_remaining) ==
  [d EXCEPT !.licenses = [i \in 1..Len(@) |->
     IF @[i].id = lid
     THEN [@[i] EXCEPT !.remaining_usage = new_remaining,
                       !.usage_count = @ + 1,
                       !.usage_time = @ + file_duration]
     ELSE @[i]]]

\* INSERT INTO usage_logs (license_id, session_start, session_end, duration)
InsertUsageLog(d, lid, now) ==
  [d EXCEPT !.usage_logs = Append(@,
     [id |-> Len(@) + 1, license_id |-> lid, session_start |-> Strftime(now),
      session_end |-> Strftime(now + Cost), duration |-> file_duration])]

\* ------------------------------------------------------------- requests
Set(p, r) == procs' = [procs EXCEPT ![p] = r]

\* requests are numbered in the order in which they arrive
CanStart(p) ==
  /\ procs[p].kind = "idle"
  /\ \A q \in Procs : q < p => procs[q].kind # "idle"

\* e-mail addresses and order codes are numbered in the order in which they
\* are first submitted
Submitted(field) == {procs[q][field] : q \in {r \in Procs : procs[r].kind = "order"}}
NextFresh(field, x) == \A y \in 1..(x - 1) : y \in Submitted(field)

\* what a finished request keeps: its parameters and its response
Finish(r, res) ==
  [IdleProc EXCEPT !.kind = r.kind, !.pc = "done", !.email = r.email,
                   !.order_code = r.order_code, !.amount = r.amount,
                   !.license_key = r.license_key,
                   !.new_remaining = r.new_remaining, !.result = res]

\* the first write of a connection takes SQLite's write lock
WriteLockFree(p) == dbWriter = 0
WriteLockBusy(p) == dbWriter # 0 /\ dbWriter # p

\* an exception leaves the handler: the request ends with the error
Raise(p, err) == Set(p, Finish(procs[p], err))

\* ---------------------------------------------------------- process_order
\* lines 92-95 and 100-101: SELECT the user by e-mail
StartOrder(p, email, code, amount) ==
  /\ CanStart(p)
  /\ NextFresh("email", email)
  /\ NextFresh("order_code", code)
  /\ LET uid == SelectUser(db, email)
     IN Set(p, [IdleProc EXCEPT !.kind = "order", !.email = email,
                  !.order_code = code, !.amount = amount,
                  !.had_user = (uid # 0), !.user_id = uid,
                  !.pc = IF uid = 0 THEN "insert_user" ELSE "select_license"])
  /\ UNCHANGED <<db, work, dbWriter, credit_lock, clock>>

\* line 97: INSERT INTO users.  users.email is UNIQUE: on a duplicate the
\* statement raises sqlite3.IntegrityError inside the transaction that the
\* INSERT has opened, and the connection keeps the write lock
OrderInsertUser(p) ==
  /\ procs[p].pc = "insert_user"
  /\ WriteLockFree(p)
  /\ dbWriter' = p
  /\ IF SelectUser(db, procs[p].email) # 0
     THEN /\ Set(p, [procs[p] EXCEPT !.pc = "abandoned"])
          /\ UNCHANGED <<db, work, credit_lock, clock>>
     ELSE /\ work' = InsertUser(db, procs[p].email)
          /\ Set(p, [procs[p] EXCEPT !.pc = "commit_user"])
          /\ UNCHANGED <<db, credit_lock, clock>>

\* the connection that process_order left open is finalised: its transaction
\* is rolled back, and simulate_order answers 400 with the error
OrderAbandon(p) ==
  /\ procs[p].pc = "abandoned"
  /\ dbWriter = p
  /\ dbWriter' = 0
  /\ work' = db
  /\ Raise(p, "IntegrityError")
  /\ UNCHANGED <<db, credit_lock, clock>>

\* lines 98-99: conn.commit(); user_id = cur.lastrowid
OrderCommitUser(p) ==
  /\ procs[p].pc = "commit_user"
  /\ dbWriter = p
  /\ db' = work
  /\ dbWriter' = 0
  /\ Set(p, [procs[p] EXCEPT !.pc = "select_license",
               !.user_id = Len(work.users)])
  /\ UNCHANGED <<work, credit_lock, clock>>

\* lines 103-105: SELECT the user's license; now = datetime.now()
OrderSelectLicense(p, now) ==
  /\ procs[p].pc = "select_license"
  /\ now >= clock
  /\ clock' = now
  /\ Set(p, [procs[p] EXCEPT !.pc = "write_license",
               !.license_record = SelectLicenseOfUser(db, procs[p].user_id),
               !.now = now])
  /\ UNCHANGED <<db, work, dbWriter, credit_lock>>

\* lines 106-115: no license yet, INSERT one
OrderCreateLicense(p) ==
  /\ procs[p].pc = "write_license"
  /\ procs[p].license_record = NoRow
  /\ WriteLockFree(p)
  /\ work' = InsertLicense(db, procs[p].user_id, procs[p].now, procs[p].amount)
  /\ dbWriter' = p
  /\ Set(p, [procs[p] EXCEPT !.pc = "insert_order",
               !.license_id = Len(db.licenses) + 1])
  /\ UNCHANGED <<db, credit_lock, clock>>

\* lines 116-130: a license exists, extend it and add the credit
OrderExtendLicense(p) ==
  /\ procs[p].pc = "write_license"
  /\ procs[p].license_record # NoRow
  /\ IF ~Parseable(procs[p].license_record.valid_until)
     THEN /\ Raise(p, "ValueError")
          /\ UNCHANGED <<db, work, dbWriter, credit_lock, clock>>
     ELSE /\ WriteLockFree(p)
          /\ work' = UpdateLicense(db, procs[p].license_record, procs[p].now,
                                   procs[p].amount)
          /\ dbWriter' = p
          /\ Set(p, [procs[p] EXCEPT !.pc = "insert_order",
                       !.license_id = procs[p].license_record.id])
          /\ UNCHANGED <<db, credit_lock, clock>>

\* lines 132-137 and 144: INSERT OR IGNORE INTO orders; conn.commit();
\* "order processed"
OrderCommit(p) ==
  /\ procs[p].pc = "insert_order"
  /\ dbWriter = p
  /\ db' = InsertOrIgnoreOrder(work, procs[p].user_id, procs[p].license_id,
                               procs[p].order_code, procs[p].amount)
  /\ work' = db'
  /\ dbWriter' = 0
  /\ Set(p, Finish(procs[p], "order processed"))
  /\ UNCHANGED <<credit_lock, clock>>

\* a write that finds the write lock held for longer than the connection's
\* busy timeout raises sqlite3.OperationalError ("database is locked")
OrderBusy(p) ==
  /\ \/ procs[p].pc = "insert_user"
     \/ /\ procs[p].pc = "write_license"
        /\ procs[p].license_record # NoRow => Parseable(procs[p].license_record.valid_until)
  /\ WriteLockBusy(p)
  /\ Raise(p, "OperationalError")
  /\ UNCHANGED <<db, work, dbWriter, credit_lock, clock>>

\* -------------------------------------------------------------- transcribe
\* lines 151-163: SELECT the license by code, parse its expiry, compare it
\* with now
StartTranscribe(p, key, now) ==
  /\ CanStart(p)
  /\ now >= clock
  /\ clock' = now
  /\ LET rec == SelectLicenseByCode(db, key)
         req == [IdleProc EXCEPT !.kind = "transcribe", !.license_key = key]
     IN IF rec = NoRow
        THEN Set(p, Finish(req, "Invalid license key"))
        ELSE IF ~Parseable(rec.valid_until)
        THEN Set(p, Finish(req, "ValueError"))
        ELSE IF now > Strptime(rec.valid_until)
        THEN Set(p, Finish(req, "License expired"))
        ELSE Set(p, [req EXCEPT !.license_record = rec, !.now = now,
                                !.pc = "lock"])
  /\ UNCHANGED <<db, work, dbWriter, credit_lock>>

\* line 169: with credit_lock
TranscribeLock(p) ==
  /\ procs[p].pc = "lock"
  /\ credit_lock = 0
  /\ credit_lock' = p
  /\ Set(p, [procs[p] EXCEPT !.pc = "deduct"])
  /\ UNCHANGED <<db, work, dbWriter, clock>>

\* lines 170-179: the check and the UPDATE, on the license_record of line 154
TranscribeDeduct(p) ==
  /\ procs[p].pc = "deduct"
  /\ credit_lock = p
  /\ LET remaining_usage == OrZero(procs[p].license_record.remaining_usage)
         new_remaining == remaining_usage - file_duration
     IN IF InsufficientCredit(remaining_usage)
        THEN /\ Raise(p, "Insufficient credit")
             /\ credit_lock' = 0
             /\ UNCHANGED <<db, work, dbWriter, clock>>
        ELSE /\ WriteLockFree(p)
             /\ work' = DeductLicense(db, procs[p].license_record.id, new_remaining)
             /\ dbWriter' = p
             /\ Set(p, [procs[p] EXCEPT !.pc = "insert_log",
                          !.new_remaining = new_remaining])
             /\ UNCHANGED <<db, credit_lock, clock>>

\* line 175 when the write lock stays held by another connection:
\* sqlite3.OperationalError leaves the with block, which releases credit_lock
TranscribeBusy(p) ==
  /\ procs[p].pc = "deduct"
  /\ credit_lock = p
  /\ ~InsufficientCredit(OrZero(procs[p].license_record.remaining_usage))
  /\ WriteLockBusy(p)
  /\ Raise(p, "OperationalError")
  /\ credit_lock' = 0
  /\ UNCHANGED <<db, work, dbWriter, clock>>

\* lines 181-197: INSERT INTO usage_logs; conn.commit(); the with block
\* ends; the result is returned
TranscribeCommit(p) ==
  /\ procs[p].pc = "insert_log"
  /\ dbWriter = p
  /\ credit_lock = p
  /\ db' = InsertUsageLog(work, procs[p].license_record.id, procs[p].now)
  /\ work' = db'
  /\ dbWriter' = 0
  /\ credit_lock' = 0
  /\ Set(p, Finish(procs[p], "file processed"))
  /\ UNCHANGED clock

\* ---------------------------------------------------------- specification
Next ==
  \/ \E p \in Procs, e \in Emails, c \in OrderCodes, a \in Amounts :
        StartOrder(p, e, c, a)
  \/ \E p \in Procs : OrderInsertUser(p)
  \/ \E p \in Procs : OrderAbandon(p)
  \/ \E p \in Procs : OrderCommitUser(p)
  \/ \E p \in Procs, now \in Instants : OrderSelectLicense(p, now)
  \/ \E p \in Procs : OrderCreateLicense(p)
  \/ \E p \in Procs : OrderExtendLicense(p)
  \/ \E p \in Procs : OrderCommit(p)
  \/ \E p \in Procs : OrderBusy(p)
  \/ \E p \in Procs, k \in Keys, now \in Instants : StartTranscribe(p, k, now)
  \/ \E p \in Procs : TranscribeLock(p)
  \/ \E p \in Procs : TranscribeDeduct(p)
  \/ \E p \in Procs : TranscribeBusy(p)
  \/ \E p \in Procs : TranscribeCommit(p)

Spec == Init /\ [][Next]_vars

\* One request at a time: a request arrives only when no other is running.
\* (No statement then finds the write lock or credit_lock held, and no INSERT
\* INTO users meets a row committed since the SELECT.)
Quiescent == \A q \in Procs : procs[q].pc \in {"idle", "done"}

NextSeq ==
  \/ \E p \in Procs, e \in Emails, c \in OrderCodes, a \in Amounts :
        Quiescent /\ StartOrder(p, e, c, a)
  \/ \E p \in Procs : OrderInsertUser(p)
  \/ \E p \in Procs : OrderCommitUser(p)
  \/ \E p \in Procs, now \in Instants : OrderSelectLicense(p, now)
  \/ \E p \in Procs : OrderCreateLicense(p)
  \/ \E p \in Procs : OrderExtendLicense(p)
  \/ \E p \in Procs : OrderCommit(p)
  \/ \E p \in Procs, k \in Keys, now \in Instants :
        Quiescent /\ StartTranscribe(p, k, now)
  \/ \E p \in Procs : TranscribeLock(p)
  \/ \E p \in Procs : TranscribeDeduct(p)
  \/ \E p \in Procs : TranscribeCommit(p)

SpecSeq == Init /\ [][NextSeq]_vars

\* Two customers: requests of up to NUsers e-mail addresses and license keys,
\* in any interleaving, with the clock read at fewer instants: a whole
\* second, an instant with a fractional part, and an instant more than 30 days
\* later.
FewInstants == {0, 1, Period + 1}

NextUsers ==
  \/ \E p \in Procs, e \in 1..NUsers, c \in OrderCodes, a \in Amounts :
        StartOrder(p, e, c, a)
  \/ \E p \in Procs : OrderInsertUser(p)
  \/ \E p \in Procs : OrderAbandon(p)
  \/ \E p \in Procs : OrderCommitUser(p)
  \/ \E p \in Procs, now \in FewInstants : OrderSelectLicense(p, now)
  \/ \E p \in Procs : OrderCreateLicense(p)
  \/ \E p \in Procs : OrderExtendLicense(p)
  \/ \E p \in Procs : OrderCommit(p)
  \/ \E p \in Procs : OrderBusy(p)
  \/ \E p \in Procs, k \in 1..NUsers, now \in FewInstants :
        StartTranscribe(p, k, now)
  \/ \E p \in Procs : TranscribeLock(p)
  \/ \E p \in Procs : TranscribeDeduct(p)
  \/ \E p \in Procs : TranscribeBusy(p)
  \/ \E p \in Procs : TranscribeCommit(p)

SpecUsers == Init /\ [][NextUsers]_vars

\* Two customers, one request at a time.
NextUsersSeq ==
  \/ \E p \in Procs, e \in 1..NUsers, c \in OrderCodes, a \in Amounts :
        Quiescent /\ StartOrder(p, e, c, a)
  \/ \E p \in Procs : OrderInsertUser(p)
  \/ \E p \in Procs : OrderCommitUser(p)
  \/ \E p \in Procs, now \in FewInstants : OrderSelectLicense(p, now)
  \/ \E p \in Procs : OrderCreateLicense(p)
  \/ \E p \in Procs : OrderExtendLicense(p)
  \/ \E p \in Procs : OrderCommit(p)
  \/ \E p \in Procs, k \in 1..NUsers, now \in FewInstants :
        Quiescent /\ StartTranscribe(p, k, now)
  \/ \E p \in Procs : TranscribeLock(p)
  \/ \E p \in Procs : TranscribeDeduct(p)
  \/ \E p \in Procs : TranscribeCommit(p)

SpecUsersSeq == Init /\ [][NextUsersSeq]_vars

\* Scheduling: a request that has arrived keeps running.  Its thread is
\* scheduled again and again (weak fairness of each of its steps); whether
\* and when requests arrive is left open.
Fairness ==
  \A p \in Procs :
    /\ WF_vars(OrderInsertUser(p))
    /\ WF_vars(OrderAbandon(p))
    /\ WF_vars(OrderCommitUser(p))
    /\ WF_vars(\E now \in Instants : OrderSelectLicense(p, now))
    /\ WF_vars(OrderCreateLicense(p))
    /\ WF_vars(OrderExtendLicense(p))
    /\ WF_vars(OrderCommit(p))
    /\ WF_vars(OrderBusy(p))
    /\ WF_vars(TranscribeLock(p))
    /\ WF_vars(TranscribeDeduct(p))
    /\ WF_vars(TranscribeBusy(p))
    /\ WF_vars(TranscribeCommit(p))

SpecFair == Init /\ [][Next]_vars /\ Fairness

\* Amounts of either sign, one request at a time: amount is any float of the
\* form (Form(...) at line 141 parses it, nothing checks its sign).
SignedAmounts == Amounts \cup {0 - a : a \in Amounts}

NextSigned ==
  \/ \E p \in Procs, e \in Emails, c \in OrderCodes, a \in SignedAmounts :
        Quiescent /\ StartOrder(p, e, c, a)
  \/ \E p \in Procs : OrderInsertUser(p)
  \/ \E p \in Procs : OrderCommitUser(p)
  \/ \E p \in Procs, now \in Instants : OrderSelectLicense(p, now)
  \/ \E p \in Procs : OrderCreateLicense(p)
  \/ \E p \in Procs : OrderExtendLicense(p)
  \/ \E p \in Procs : OrderCommit(p)
  \/ \E p \in Procs, k \in Keys, now \in Instants :
        Quiescent /\ StartTranscribe(p, k, now)
  \/ \E p \in Procs : TranscribeLock(p)
  \/ \E p \in Procs : TranscribeDeduct(p)
  \/ \E p \in Procs : TranscribeCommit(p)

SpecSigned == Init /\ [][NextSigned]_vars

\* ------------------------------------------------------------ properties
Orders == {p \in Procs : procs[p].kind = "order"}
Transcribes == {p \in Procs : procs[p].kind = "transcribe"}
Done(p) == procs[p].pc = "done"
WithResult(S, res) == {p \in S : Done(p) /\ procs[p].result = res}
Recorded(d, code) == \E i \in 1..Len(d.orders) : d.orders[i].order_code = code
LicensesOf(d, uid) == {i \in 1..Len(d.licenses) : d.licenses[i].user_id = uid}
UsersOf(d, email) == {i \in 1..Len(d.users) : d.users[i].email = email}
LogsOf(d, lid) == {i \in 1..Len(d.usage_logs) : d.usage_logs[i].license_id = lid}
Max(a, b) == IF a >= b THEN a ELSE b
\* floor(A * 60) for the amount A = a / AmountDen, a >= 0
Floor60(a) == CHOOSE n \in 0..(a * 60) :
                n * AmountDen <= a * 60 /\ a * 60 < (n + 1) * AmountDen
\* request p takes the step that leads from position "from" to position "to"
Moves(p, from, to) == procs[p].pc = from /\ procs'[p].pc = to

\* C1: N concurrent redemptions of one non-expired license that holds exactly
\* K * 60 seconds (0 <= K <= N), with nothing else running: exactly K succeed,
\* N - K fail with "Insufficient credit", and the balance ends at 0.
\* The license is the one that the run's single order created (so it holds
\* exactly the order's credit), and every redemption found it (so it arrived
\* after the order had completed).
C1_ExactlyKRedemptions ==
  \A o \in Orders : \A K \in 0..NProcs :
    ( /\ Orders = {o}
      /\ Transcribes # {}
      /\ \A p \in Procs : Done(p)
      /\ procs[o].result = "order processed"
      /\ \A t \in Transcribes :
           procs[t].license_key = 1 /\ procs[t].result # "Invalid license key"
      /\ Len(db.licenses) = 1
      /\ clock <= Instant(db.licenses[1].valid_until)
      /\ Floor60(procs[o].amount) = K * file_duration
      /\ K <= Cardinality(Transcribes) )
    => /\ Cardinality(WithResult(Transcribes, "file processed")) = K
       /\ Cardinality(WithResult(Transcribes, "Insufficient credit"))
            = Cardinality(Transcribes) - K
       /\ db.licenses[1].remaining_usage = 0

\* The same claim for a license whose stored expiry has no fractional part
\* (every redemption gets past the expiry check).
C1_ExactlyKRedemptionsParsed ==
  (Len(db.licenses) = 1 /\ Parseable(db.licenses[1].valid_until))
    => C1_ExactlyKRedemptions

\* C2: order application is idempotent per order_code: a process_order call
\* for an order_code that already has its Order row leaves every license as it
\* was (valid_until and remaining_usage are applied at most once per code).
C2_IdempotentPerOrderCode ==
  [][\A p \in Procs :
       (Moves(p, "insert_order", "done") /\ Recorded(db, procs[p].order_code))
         => db'.licenses = db.licenses]_vars

\* C3: every license's stored remaining_usage is >= 0, in the committed
\* database and in the open transaction.
C3_RemainingNonNegative ==
  /\ \A i \in 1..Len(db.licenses) : db.licenses[i].remaining_usage >= 0
  /\ \A i \in 1..Len(work.licenses) : work.licenses[i].remaining_usage >= 0

\* a license that was redeemed down to less than one redemption's cost
C3_Witness ==
  \E i \in 1..Len(db.licenses) :
    /\ db.licenses[i].usage_count >= 1
    /\ db.licenses[i].remaining_usage < file_duration
    /\ WithResult(Transcribes, "Insufficient credit") # {}

\* C4: process_order commits user creation, license creation/extension and
\* order insertion as one unit: no committed state shows a user row without a
\* license row and an Order row of that user.
C4_OrderIsOneUnit ==
  \A u \in 1..Len(db.users) :
    /\ LicensesOf(db, db.users[u].id) # {}
    /\ \E i \in 1..Len(db.orders) : db.orders[i].user_id = db.users[u].id

\* C5: the stored valid_until of a license never decreases.
C5_ValidUntilNeverDecreases ==
  [][\A i \in 1..Len(db.licenses) :
       Instant(db'.licenses[i].valid_until) >= Instant(db.licenses[i].valid_until)]_vars

\* C6: for an e-mail with no user, one process_order call with amount A at
\* time now leaves exactly one user with that e-mail and exactly one license of
\* that user, with valid_from = now, valid_until = now + 30 days,
\* remaining_usage = floor(A * 60), usage_time = 0 and usage_count = 0.
C6_FirstOrderCreatesLicense ==
  [][\A p \in Procs :
       (Moves(p, "insert_order", "done") /\ ~procs[p].had_user)
         => /\ Cardinality(UsersOf(db', procs[p].email)) = 1
            /\ \A u \in UsersOf(db', procs[p].email) :
                 /\ Cardinality(LicensesOf(db', db'.users[u].id)) = 1
                 /\ \A i \in LicensesOf(db', db'.users[u].id) :
                      LET lic == db'.licenses[i]
                      IN /\ Instant(lic.valid_from) = procs[p].now
                         /\ Instant(lic.valid_until)
                              = procs[p].now + ExtensionDays * SecondsPerDay * SubSec
                         /\ lic.remaining_usage = Floor60(procs[p].amount)
                         /\ lic.usage_time = 0
                         /\ lic.usage_count = 0]_vars

\* a first order of 1.125 units placed at an instant with a fractional part
C6_Witness ==
  \E p \in Orders :
    /\ Done(p) /\ procs[p].result = "order processed" /\ procs[p].amount = 9
    /\ Len(db.users) = 1 /\ Len(db.licenses) = 1 /\ Len(db.orders) = 1
    /\ db.licenses[1].remaining_usage = 67
    /\ db.licenses[1].valid_from.f # 0

\* C7: for a user who has a license, a process_order call with a new
\* order_code and amount A at time now succeeds and sets valid_until =
\* max(now, old valid_until) + 30 days (to the second, the resolution of the
\* stored text) and remaining_usage = old remaining_usage + floor(A * 60).
C7_LaterOrderExtends ==
  [][\A p \in Procs :
       LET r == procs[p]
           old == r.license_record
       IN (/\ r.kind = "order" /\ r.pc = "write_license" /\ old # NoRow
           /\ ~Recorded(db, r.order_code)
           /\ procs'[p] # r)
          => /\ procs'[p].pc = "insert_order"
             /\ \A i \in 1..Len(work'.licenses) :
                  work'.licenses[i].id = old.id
                    => /\ work'.licenses[i].valid_until.s
                            = (Max(r.now, Instant(old.valid_until))
                                 + ExtensionDays * SecondsPerDay * SubSec) \div SubSec
                       /\ work'.licenses[i].remaining_usage
                            = old.remaining_usage + Floor60(r.amount)]_vars

\* C8: a redemption with an unknown key fails with "Invalid license key",
\* with an expired license with "License expired", with a balance under 60
\* with "Insufficient credit"; in each case the store is left unchanged.
C8_RedemptionFailures ==
  [][\A p \in Procs :
       /\ (procs[p].kind = "idle" /\ procs'[p].kind = "transcribe")
            => LET lic == SelectLicenseByCode(db, procs'[p].license_key)
                   res == procs'[p].result
               IN /\ lic = NoRow => res = "Invalid license key" /\ db' = db
                  /\ (lic # NoRow /\ clock' > Instant(lic.valid_until))
                       => res = "License expired" /\ db' = db
                  /\ (lic # NoRow /\ clock' <= Instant(lic.valid_until)
                        /\ lic.remaining_usage < file_duration)
                       => procs'[p].pc = "lock"
       /\ ( /\ procs[p].kind = "transcribe" /\ procs[p].pc = "deduct"
            /\ procs'[p] # procs[p]
            /\ SelectLicenseByCode(db, procs[p].license_key).remaining_usage
                 < file_duration )
            => procs'[p].result = "Insufficient credit" /\ db' = db]_vars

\* C9: each license's usage_count is the number of its UsageLog rows and the
\* number of redemptions that succeeded against it, usage_time is the sum of
\* the rows' durations, i.e. 60 * usage_count; neither counter ever decreases.
RECURSIVE SumDuration(_, _)
SumDuration(d, S) ==
  IF S = {} THEN 0
  ELSE LET i == Min(S) IN d.usage_logs[i].duration + SumDuration(d, S \ {i})

C9_CountersMatchLogs ==
  \A i \in 1..Len(db.licenses) :
    LET lic == db.licenses[i]
        succeeded == {p \in WithResult(Transcribes, "file processed") :
                        procs[p].license_key = lic.license_code}
    IN /\ lic.usage_count = Cardinality(LogsOf(db, lic.id))
       /\ lic.usage_count = Cardinality(succeeded)
       /\ lic.usage_time = SumDuration(db, LogsOf(db, lic.id))
       /\ lic.usage_time = 60 * lic.usage_count

C9_CountersNeverDecrease ==
  \A i \in 1..Len(db.licenses) :
    /\ db'.licenses[i].usage_count >= db.licenses[i].usage_count
    /\ db'.licenses[i].usage_time >= db.licenses[i].usage_time

C10_OneLicensePerUser ==
  \A u \in 1..Len(db.users) : Cardinality(LicensesOf(db, db.users[u].id)) <= 1

\* C11: the orders table holds at most one row per order_code, and once an
\* Order row exists no later operation changes any of its fields (user_id,
\* license_id, amount, payment_status), whoever resubmits the order_code and
\* with whatever e-mail or amount.
C11_OneRowPerCode ==
  \A i, j \in 1..Len(db.orders) :
    db.orders[i].order_code = db.orders[j].order_code => i = j

C11_RowsKept ==
  /\ Len(db'.orders) >= Len(db.orders)
  /\ \A i \in 1..Len(db.orders) : db'.orders[i] = db.orders[i]

C11_OrderRowsImmutable == []C11_OneRowPerCode /\ [][C11_RowsKept]_vars

\* an order_code that was resubmitted by another customer with another
\* amount, both calls completed, and a single row of the first call
C11_Witness ==
  \E p, q \in Orders :
    /\ p < q /\ Done(p) /\ Done(q)
    /\ procs[p].result = "order processed"
    /\ procs[q].result = "order processed"
    /\ procs[p].order_code = procs[q].order_code
    /\ procs[p].email # procs[q].email
    /\ procs[p].amount # procs[q].amount
    /\ Len(db.orders) = 1
    /\ db.orders[1].amount = procs[p].amount
    /\ db.orders[1].user_id = SelectUser(db, procs[p].email)

\* C12: an order with a negative amount is rejected with an error and leaves
\* users, licenses and orders unchanged: no step of such a call changes the
\* database, and the call does not end with "order processed".
C12_NegativeAmountRejected ==
  [][\A p \in Procs :
       (procs'[p].kind = "order" /\ procs'[p].amount < 0
          /\ procs'[p] # procs[p])
         => /\ db' = db
            /\ procs'[p].result # "order processed"]_vars

\* C13: redemptions of a non-expired license made one after another: a
\* redemption that finds the stored balance B >= 60 succeeds, lowers the
\* stored remaining_usage by exactly 60 and returns remaining_credit equal to
\* the stored balance after the deduction; one that finds B < 60 fails with
\* "Insufficient credit" and leaves the store as it was.  (Hence the i-th
\* redemption succeeds iff i <= floor(B / 60), and the balance ends at
\* B mod 60.)
C13_RedemptionStep(p) ==
  LET lic == SelectLicenseByCode(db, procs'[p].license_key)
      after == SelectLicenseByCode(db', procs'[p].license_key)
  IN /\ (procs[p].kind = "idle" /\ procs'[p].kind = "transcribe"
            /\ lic # NoRow /\ clock' <= Instant(lic.valid_until))
          => procs'[p].pc = "lock"
     /\ (procs[p].pc = "deduct" /\ procs'[p] # procs[p])
          => IF lic.remaining_usage >= file_duration
             THEN /\ procs'[p].pc = "insert_log"
                  /\ procs'[p].new_remaining = lic.remaining_usage - file_duration
             ELSE /\ procs'[p].result = "Insufficient credit"
                  /\ db' = db
     /\ Moves(p, "insert_log", "done")
          => /\ procs'[p].result = "file processed"
             /\ after.remaining_usage = lic.remaining_usage - file_duration
             /\ procs'[p].new_remaining = after.remaining_usage

C13_SequentialRedemptions == [][\A p \in Procs : C13_RedemptionStep(p)]_vars

\* The same claim for licenses whose stored expiry has no fractional part.
C13_SequentialRedemptionsParsed ==
  [][(\A i \in 1..Len(db.licenses) : Parseable(db.licenses[i].valid_until))
       => \A p \in Procs : C13_RedemptionStep(p)]_vars

\* C14: the remaining_usage value that a redemption compares with the cost
\* and subtracts from is the value the store holds while the request is
\* inside credit_lock, never a value read before another request's committed
\* change.
C14_BalanceReadUnderLock ==
  [][\A p \in Procs :
       (procs[p].pc = "deduct" /\ credit_lock = p /\ procs'[p] # procs[p])
         => OrZero(procs[p].license_record.remaining_usage)
              = SelectLicenseByCode(db, procs[p].license_key).remaining_usage]_vars

\* C15: a redemption checks existence, then expiry, then credit: an unknown
\* key gives "Invalid license key"; an expired license gives "License
\* expired" whatever its balance (never "Insufficient credit"); the expiry
\* test is strict, a redemption at now = valid_until exactly is not rejected
\* as expired; "Insufficient credit" is given only to a request that passed
\* the expiry test.
C15_CheckStep(p) ==
  LET lic == SelectLicenseByCode(db, procs'[p].license_key)
  IN /\ (procs[p].kind = "idle" /\ procs'[p].kind = "transcribe")
          => /\ lic = NoRow => procs'[p].result = "Invalid license key"
             /\ (lic # NoRow /\ clock' > Instant(lic.valid_until))
                  => procs'[p].result = "License expired"
             /\ (lic # NoRow /\ clock' = Instant(lic.valid_until))
                  => procs'[p].result # "License expired"
     /\ (procs[p].kind = "transcribe"
            /\ procs'[p].result = "Insufficient credit")
          => /\ procs[p].pc = "deduct"
             /\ procs[p].now <= Instant(procs[p].license_record.valid_until)

C15_CheckOrder == [][\A p \in Procs : C15_CheckStep(p)]_vars

\* The same claim for licenses whose stored expiry has no fractional part.
C15_CheckOrderParsed ==
  [][(\A i \in 1..Len(db.licenses) : Parseable(db.licenses[i].valid_until))
       => \A p \in Procs : C15_CheckStep(p)]_vars

\* C16: every transcribe request eventually completes, and it completes with
\* success or with one of the three rejections; credit_lock is free whenever
\* no request is inside the critical section (in particular after a request
\* was rejected there with "Insufficient credit").
C16_Outcomes ==
  {"file processed", "Invalid license key", "License expired",
   "Insufficient credit"}

C16_TranscribeOutcome ==
  /\ \A p \in Transcribes : Done(p) => procs[p].result \in C16_Outcomes
  /\ credit_lock # 0 => procs[credit_lock].pc \in {"deduct", "insert_log"}

\* every transcribe request eventually completes
C16_TranscribeTerminates ==
  \A p \in Procs : (procs[p].kind = "transcribe") ~> Done(p)

\* credit_lock is held exactly by the request inside the critical section
C16_LockReleased ==
  /\ credit_lock # 0 => procs[credit_lock].pc \in {"deduct", "insert_log"}
  /\ \A p \in Procs :
       procs[p].pc \in {"deduct", "insert_log"} => credit_lock = p

\* C17: credit conservation: in every quiescent state each license's
\* remaining_usage is the sum of floor(amount * 60) over the completed
\* process_order calls of the license's user, minus 60 * usage_count.
\* (Stated for the users who have a single license, in the runs in which no
\* order_code was submitted twice.)
RECURSIVE SumCredit(_)
SumCredit(S) ==
  IF S = {} THEN 0
  ELSE LET p == Min(S) IN Floor60(procs[p].amount) + SumCredit(S \ {p})

C17_CreditConserved ==
  (Quiescent /\ \A p, q \in Orders :
                  procs[p].order_code = procs[q].order_code => p = q) =>
    \A i \in {j \in 1..Len(db.licenses) :
                Cardinality(LicensesOf(db, db.licenses[j].user_id)) = 1} :
      LET lic == db.licenses[i]
          paid == {p \in WithResult(Orders, "order processed") :
                     SelectUser(db, procs[p].email) = lic.user_id}
      IN lic.remaining_usage = SumCredit(paid) - file_duration * lic.usage_count

\* C18: frame conditions.  A step of a transcribe request changes no
\* license's valid_from or valid_until, no user row, no order row, and no
\* field of a license other than the one named by license_key.  A step of a
\* process_order call changes no license's usage_count or usage_time, no
\* usage_logs row, and no field of a license that belongs to another user.
C18_TranscribeFrame(p) ==
  /\ db'.users = db.users
  /\ db'.orders = db.orders
  /\ Len(db'.licenses) = Len(db.licenses)
  /\ \A i \in 1..Len(db.licenses) :
       /\ db'.licenses[i].valid_from = db.licenses[i].valid_from
       /\ db'.licenses[i].valid_until = db.licenses[i].valid_until
       /\ db.licenses[i].license_code # procs'[p].license_key
            => db'.licenses[i] = db.licenses[i]

C18_OrderFrame(p) ==
  /\ db'.usage_logs = db.usage_logs
  /\ \A i \in 1..Len(db.licenses) :
       /\ db'.licenses[i].usage_count = db.licenses[i].usage_count
       /\ db'.licenses[i].usage_time = db.licenses[i].usage_time
       /\ db.licenses[i].user_id # SelectUser(db', procs'[p].email)
            => db'.licenses[i] = db.licenses[i]

C18_FrameConditions ==
  [][\A p \in Procs :
       procs'[p] # procs[p]
         => /\ procs'[p].kind = "transcribe" => C18_TranscribeFrame(p)
            /\ procs'[p].kind = "order" => C18_OrderFrame(p)]_vars

\* two customers with a license each, both orders completed; one license
\* was redeemed, the other is as it was created
C18_Witness ==
  /\ Len(db.licenses) = 2
  /\ db.licenses[1].user_id # db.licenses[2].user_id
  /\ \E i, j \in 1..2 :
       /\ i # j
       /\ db.licenses[i].usage_count = 1
       /\ db.licenses[i].remaining_usage < file_duration
       /\ db.licenses[j].usage_count = 0
       /\ db.licenses[j].remaining_usage >= file_duration
  /\ WithResult(Transcribes, "file processed") # {}
  /\ Cardinality(WithResult(Orders, "order processed")) = 2

\* C19: every credit is backed by a recorded order: each license row is
\* referenced by an Order row of the same user, and each completed
\* process_order call has an Order row with its order_code that references
\* the call's user and a license of that user.
C19_CreditBackedByOrder ==
  /\ \A i \in 1..Len(db.licenses) :
       \E k \in 1..Len(db.orders) :
         /\ db.orders[k].license_id = db.licenses[i].id
         /\ db.orders[k].user_id = db.licenses[i].user_id
  /\ \A p \in WithResult(Orders, "order processed") :
       \E k \in 1..Len(db.orders) :
         /\ db.orders[k].order_code = procs[p].order_code
         /\ db.orders[k].user_id = SelectUser(db, procs[p].email)
         /\ \E i \in LicensesOf(db, db.orders[k].user_id) :
              db.licenses[i].id = db.orders[k].license_id

====
